---------------------------- MODULE Spec2Model ----------------------------
(***************************************************************************)
(* A model of sub2md (src/sub2md): the fetch-extract-persist pipeline of   *)
(* SubstackScraper.scrape_posts, the on-disk content cache of Cache, and   *)
(* URL discovery (get_all_post_urls), and the listing generator            *)
(* (Generator.py).                                                         *)
(*                                                                         *)
(* Specifications:                                                         *)
(*   Spec           one run of scrape_posts over a short URL list          *)
(*   SpecGate       the same run over more URLs than the fetch gate has    *)
(*                  permits                                                *)
(*   SpecGateFair   SpecGate under the scheduling of the event loop        *)
(*   SpecInterrupt  one run that SIGINT or SIGTERM may end                 *)
(*   SpecRerun      the program run again on the same output directory     *)
(*   SpecDiscovery  get_all_post_urls over bounded sitemap / feed answers, *)
(*                  up to the creation of scrape_posts' tasks              *)
(*   SpecCalls      single calls of _filter_urls, extract_post_data,       *)
(*                  save_markdown, save_html, save_essays_data_to_json,    *)
(*                  _extract_main_part, Generator._generate_files          *)
(***************************************************************************)
EXTENDS Integers, Sequences, FiniteSets, TLC

(***************************************************************************)
(* Bounds of the model and constants of the program.                       *)
(***************************************************************************)
\* NETWORK['MAX_CONCURRENT_REQUESTS'], the permits of the fetch gate.
MAX_CONCURRENT_REQUESTS == 5
\* Longest URL list a run of Spec processes.
MaxUrls == 2
\* Number of runs (scraper processes, one after the other) of SpecRerun.
MaxRuns == 2
\* Longest URL list of SpecRerun.
RerunUrls == 1
\* SpecGate runs MAX_CONCURRENT_REQUESTS + GateExtra URLs.
GateExtra == 1
\* Longest <loc> / <link> list a sitemap or feed answer carries.
MaxLinks == 2
\* Longest record list, and longest index, of a single call of
\* save_essays_data_to_json.
MaxRecords == 2
\* Most dot-separated labels of a host name.
MaxLabels == 3

\* Post URLs.  The pipeline compares them by equality only (the membership
\* test of processed_urls, the cache key md5(url)), so a URL is a number here.
Urls == 1..(MAX_CONCURRENT_REQUESTS + GateExtra)
\* URLs of Spec's runs.
SpecUrls == {1, 2}
\* URL list of SpecGate's run: pairwise distinct, more than the gate's permits.
GateUrlSeq == [i \in 1..(MAX_CONCURRENT_REQUESTS + GateExtra) |-> i]

Range(s) == {s[i] : i \in 1..Len(s)}

\* All sequences over S of length at most n.
SeqsUpTo(S, n) == UNION {[1..k -> S] : k \in 0..n}

(***************************************************************************)
(* Documents.  A page's markup is described by what the program looks at:  *)
(* whether the markup carries its own <html><body> wrapper; the texts of   *)
(* its first <h1>, of the first <h2> inside its content div and of its     *)
(* first <time> ("" when there is no such element, the date being a        *)
(* sequence of characters, <<>> for ""); the text of its first             *)
(* span.like-count (<<>> when there is none, else <<text>>, the text being *)
(* a sequence of characters); whether it has a div.paid-content; and the   *)
(* classes, out of 'body' and 'post-content', it has a div of.             *)
(* Two markups are the same string iff they are the same record.           *)
(***************************************************************************)
\* Texts of a span.like-count: a number, a negative number, a word, nothing.
LikeTexts == {<<"1", "2">>, <<"-", "5">>, <<"a">>, <<>>}

\* Texts of a <time>: none, and two dates that plain string comparison and
\* numeric comparison order differently.
DateTexts == {<<>>, <<"9">>, <<"1", "0">>}

Markup == [wrapped : BOOLEAN, h1 : {"", "A", "B"}, h2 : {"", "S"},
           time : DateTexts, like : {<<>>} \cup {<<t>> : t \in LikeTexts},
           paid : BOOLEAN, divs : SUBSET {"body", "post-content"}]

\* The pages the remote site may serve.
PageFull == [wrapped |-> TRUE,  h1 |-> "A", h2 |-> "S",
             time |-> <<"1", "0">>,
             like |-> << <<"1", "2">> >>, paid |-> FALSE, divs |-> {"body"}]
PageFrag == [wrapped |-> FALSE, h1 |-> "B", h2 |-> "", time |-> <<>>,
             like |-> <<>>, paid |-> TRUE, divs |-> {"post-content"}]
PageBare == [wrapped |-> TRUE,  h1 |-> "", h2 |-> "", time |-> <<>>,
             like |-> <<>>, paid |-> FALSE, divs |-> {}]
Pages    == {PageFull, PageFrag, PageBare}

\* BeautifulSoup(text, 'html.parser'): the tree mirrors the markup as given;
\* the parser adds no element.
ParseHtmlParser(text) == text

\* BeautifulSoup(text, 'lxml'): lxml builds a full document, so markup that
\* has no <html><body> of its own is wrapped in one.
ParseLxml(text) == [text EXCEPT !.wrapped = TRUE]

\* str(soup): the tree serialised back to markup.
Str(soup) == soup


(***************************************************************************)
(* The cache directory: one file per URL, <cache_dir>/md5(url).cache.      *)
(* md5 is taken to be injective on the URLs of a run.  A file that exists  *)
(* but cannot be read as UTF-8 text is "unreadable".                       *)
(***************************************************************************)
NoFile         == [exists |-> FALSE, readable |-> FALSE, text |-> PageBare]
UnreadableFile == [exists |-> TRUE,  readable |-> FALSE, text |-> PageBare]
TextFile(t)    == [exists |-> TRUE,  readable |-> TRUE,  text |-> t]

\* Cache.get_cached_soup: <<soup>> when the file exists and can be read and
\* parsed, <<>> (None) otherwise; the read error is printed, never raised.
get_cached_soup(c, url) ==
    IF c[url].exists /\ c[url].readable
    THEN <<ParseLxml(c[url].text)>>
    ELSE <<>>

\* Faulty variant of save_cached_soup: nothing is written.
save_cached_soup_Never(c, url, soup, wok) == c

\* Cache.save_cached_soup: writes str(soup) to the URL's file; wok = FALSE is
\* a failing open/write, which is printed and swallowed (file unchanged).
save_cached_soup(c, url, soup, wok) ==
    IF wok THEN [c EXCEPT ![url] = TextFile(Str(soup))] ELSE c

\* Faulty variant of save_cached_soup_raises: no try/except around the write.
save_cached_soup_raises_NoTry(wok) == ~wok

\* Whether save_cached_soup lets the write error out (it does not).
save_cached_soup_raises(wok) == FALSE

\* Cache.clear_cache: unlinks every *.cache file.
clear_cache(c) == [u \in DOMAIN c |-> NoFile]

\* Faulty variant of CacheHit: the cached document is never used.
CacheHit_Never(cached) == FALSE

\* `if cached_soup:` -- a BeautifulSoup object is truthy, None is not.
CacheHit(cached) == cached # <<>>

(***************************************************************************)
(* Extraction and persistence of one document.                             *)
(***************************************************************************)
\* CONTENT['CONTENT_DIV_CLASSES'], tried in this order.
CONTENT_DIV_CLASSES == <<"body", "post-content">>

\* Whether _find_content_div finds a div: the document has a div of one of
\* the classes of the list.
HasContentDiv(soup) == \E k \in 1..Len(CONTENT_DIV_CLASSES) :
                          CONTENT_DIV_CLASSES[k] \in soup.divs

\* _find_content_div: the class of the div returned, the first class of the
\* list the document has a div of.
find_content_div(soup) ==
    LET k == CHOOSE k \in 1..Len(CONTENT_DIV_CLASSES) :
                 /\ CONTENT_DIV_CLASSES[k] \in soup.divs
                 /\ \A j \in 1..(k-1) : CONTENT_DIV_CLASSES[j] \notin soup.divs
    IN  CONTENT_DIV_CLASSES[k]

\* Python's int(s) for the texts of LikeTexts' alphabet: an optional sign and
\* at least one decimal digit; <<>> (ValueError) for anything else.
Digits == <<"0", "1", "2", "3", "4", "5", "6", "7", "8", "9">>
IsDigit(c) == \E d \in 1..Len(Digits) : Digits[d] = c
DigitValue(c) == (CHOOSE d \in 1..Len(Digits) : Digits[d] = c) - 1

RECURSIVE DecimalValue(_)
DecimalValue(s) ==
    IF s = <<>> THEN 0
    ELSE 10 * DecimalValue(SubSeq(s, 1, Len(s) - 1)) + DigitValue(s[Len(s)])

int(s) ==
    LET signed == s # <<>> /\ s[1] \in {"-", "+"}
        body   == IF signed THEN Tail(s) ELSE s
    IN  IF body = <<>> \/ \E k \in 1..Len(body) : ~IsDigit(body[k])
        THEN <<>>
        ELSE <<(IF signed /\ s[1] = "-" THEN -1 ELSE 1) * DecimalValue(body)>>

\* _extract_like_count (lines 375-383): int() of the first span.like-count's
\* text, 0 when there is no such span or int() raises ValueError.
extract_like_count(soup) ==
    IF soup.like = <<>> THEN 0
    ELSE IF int(soup.like[1]) = <<>> THEN 0 ELSE int(soup.like[1])[1]

\* Faulty variant of extract_title: a document without <h1> has no title.
extract_title_NoDefault(soup) == soup.h1

\* _extract_title (lines 360-363).
extract_title(soup) == IF soup.h1 = "" THEN "Untitled" ELSE soup.h1

\* extract_post_data: the record of a document with a content container.
\* str(content_div) does not contain the <html><body> wrapper.
extract_post_data(soup) ==
    [title      |-> extract_title(soup),
     subtitle   |-> soup.h2,
     date       |-> soup.time,
     like_count |-> extract_like_count(soup),
     is_paid    |-> soup.paid,
     content    |-> find_content_div(soup),
     file_link  |-> "",
     html_link  |-> ""]

\* What extract_post_data raises for a document ("" = nothing): ContentError
\* of _find_content_div, wrapped again by the except clause (lines 348-350).
extract_post_data_raises(soup) ==
    IF HasContentDiv(soup) THEN "" ELSE "ContentError"

\* Faulty variant of WithFileLink: save_markdown stores no link.
WithFileLink_Unset(rec) == rec

\* The record after save_markdown / save_html stored the link.
WithFileLink(rec) == [rec EXCEPT !.file_link = "md"]
\* Faulty variant of WithHtmlLink: save_html stores no link.
WithHtmlLink_Unset(rec) == rec

WithHtmlLink(rec) == [rec EXCEPT !.html_link = "html"]

\* Lines 293-302 of _process_single_url for a parsed document in output mode
\* m: extract, save Markdown and/or HTML, return the record.  mdok / htmlok
\* say whether the file writes succeed.  res is "record" or the exception
\* raised; files are the per-post files written on the way; steps are the
\* calls made, in order.
ProcessSoup(soup, m, mdok, htmlok) ==
    LET rec0  == extract_post_data(soup)
        domd  == m \in {"both", "md"}
        dohtm == m \in {"both", "html"}
        rec1  == IF domd THEN WithFileLink(rec0) ELSE rec0
        rec2  == IF dohtm THEN WithHtmlLink(rec1) ELSE rec1
        mdst  == IF domd THEN <<"save_markdown">> ELSE <<>>
        htmst == IF dohtm THEN <<"save_html">> ELSE <<>>
    IN  IF extract_post_data_raises(soup) # ""
        THEN [res |-> extract_post_data_raises(soup), rec |-> <<>>,
              files |-> {}, steps |-> <<"extract_post_data">>]
        ELSE IF domd /\ ~mdok
        THEN [res |-> "FileSystemError", rec |-> <<>>, files |-> {},
              steps |-> <<"extract_post_data", "save_markdown">>]
        ELSE IF dohtm /\ ~htmlok
        THEN [res |-> "FileSystemError", rec |-> <<>>,
              files |-> IF domd THEN {<<"md", rec0.title>>} ELSE {},
              steps |-> <<"extract_post_data">> \o mdst \o htmst]
        ELSE [res |-> "record", rec |-> <<rec2>>,
              files |-> (IF domd THEN {<<"md", rec0.title>>} ELSE {})
                        \cup (IF dohtm THEN {<<"html", rec0.title>>} ELSE {}),
              steps |-> <<"extract_post_data">> \o mdst \o htmst]

(***************************************************************************)
(* State.                                                                  *)
(***************************************************************************)
VARIABLES
    urls,            \* urls_to_process of scrape_posts
    mode,            \* self.output_mode
    run,             \* number of the current run (process)
    pc,              \* where scrape_posts is: ready, running, done, aborted, failed
    raised,          \* the exception scrape_posts ended with ("" = none)
    task,            \* the tasks made from _process_single_url, one per list entry
    sem_value,       \* free permits of self.semaphore
    waiters,         \* tasks blocked in self.semaphore.acquire(), in FIFO order
    done_queue,      \* results of finished tasks not yet taken by as_completed's loop
    essays_data,     \* the list scrape_posts collects records in
    processed_urls,  \* self.processed_urls
    session,         \* the aiohttp session: open or closed
    merged,          \* save_essays_data_to_json wrote the index in this run
    generated,       \* Generator.generate ran in this run
    cache,           \* the cache directory, per URL
    index,           \* data/<author>.json
    files,           \* per-post files on disk, <<kind, name>>
    site,            \* environment: the answers the remote site can give to a GET
    disk_faults,     \* environment: whether writes to the output directory can fail
    essays_json,     \* environment: data/<author>_essays.json
    listing,         \* the listing files: what index.html and index.md show
    d_pc,            \* where get_all_post_urls is
    d_sitemap,       \* the answer to GET <base>/sitemap.xml
    d_feed,          \* the answer to GET <base>/feed
    d_requests,      \* the paths get_all_post_urls requested, in order
    d_result,        \* what get_all_post_urls returned
    call,            \* a single call of one method: its name and arguments
    rets             \* what the calls made so far returned or raised

pipeVars == <<urls, mode, run, pc, raised, task, sem_value, waiters, done_queue,
              essays_data, processed_urls, session, merged, generated, cache,
              index, files, site, disk_faults, essays_json, listing>>
\* The pipeline's variables other than urls, pc and raised.
pipeRest == <<mode, run, task, sem_value, waiters, done_queue, essays_data,
              processed_urls, session, merged, generated, cache, index, files,
              site, disk_faults, essays_json, listing>>
genVars  == <<essays_json, listing>>
discVars == <<d_pc, d_sitemap, d_feed, d_requests, d_result>>
callVars == <<call, rets>>
vars     == <<pipeVars, discVars, callVars, genVars>>

OutputModes == {"both", "md", "html"}

\* What the HTTP session answers to GET <post url>: status 0 stands for a
\* transport failure (session.get or response.text() raises aiohttp.ClientError
\* or asyncio.TimeoutError); otherwise an HTTP status with, for 200, the page.
TransportFailure == [status |-> 0, body |-> <<>>]
Responses == {TransportFailure, [status |-> 500, body |-> <<>>]}
             \cup {[status |-> 200, body |-> <<p>>] : p \in Pages}

\* A task before asyncio created it.
IdleTask == [pc |-> "idle", hit |-> "", resp |-> <<>>, cw |-> "", gets |-> 0,
             res |-> "", rec |-> <<>>, steps |-> <<>>]

\* data/<author>.json: whether the file exists, whether it can be read as
\* UTF-8 text, whether that text is JSON, and the array it then decodes to.
NoIndex == [exists |-> FALSE, readable |-> FALSE, decodes |-> FALSE,
            data |-> <<>>]
\* A file whose text is not JSON (an empty or truncated file).
BadJsonIndex == [exists |-> TRUE, readable |-> TRUE, decodes |-> FALSE,
                 data |-> <<>>]
\* A file whose bytes are not UTF-8 text.
NotTextIndex == [exists |-> TRUE, readable |-> FALSE, decodes |-> FALSE,
                 data |-> <<>>]
\* A file holding the JSON array d.
ArrayIndex(d) == [exists |-> TRUE, readable |-> TRUE, decodes |-> TRUE,
                  data |-> d]

Tasks == 1..Len(urls)

\* asyncio.Semaphore(NETWORK['MAX_CONCURRENT_REQUESTS']) of init_session.
SemaphoreInit == MAX_CONCURRENT_REQUESTS

\* Faulty variant of CanAcquire: the gate admits every task.
CanAcquire_Always == TRUE

\* Semaphore.acquire returns at once iff a permit is free; a free permit with
\* tasks still queued does not occur (release hands the permit to the first
\* waiter).
CanAcquire == sem_value > 0

\* Tasks holding a permit of the fetch gate: inside `async with self.semaphore`.
InGate(i) == task[i].pc \in {"admitted", "fetching"}

AllStarted == \A i \in Tasks : task[i].pc \notin {"idle", "created"}
AllDone    == \A i \in Tasks : task[i].pc = "done"

\* Lines 285-287: what the fetch raises for an answer ("" = nothing).
FetchException(r) ==
    IF r.status = 0 THEN "ClientError"
    ELSE IF r.status # 200 THEN "NetworkError"
    ELSE ""

\* Faulty variant of ExceptClauses: NetworkError is not caught.
ExceptClauses_Uncaught(exc) == exc

\* The except clauses of _process_single_url (lines 304-310): NetworkError is
\* swallowed and the task returns None; anything else is logged and re-raised.
ExceptClauses(exc) == IF exc = "NetworkError" THEN "none" ELSE exc

\* Line 271: a URL already in processed_urls is skipped.
AlreadyProcessed(url) == url \in processed_urls

\* What _process_single_url adds to processed_urls when it takes a URL on:
\* nothing (no statement of the class adds to the set).
MarkProcessed(url) == processed_urls

\* Outcomes of a write to the output directory.
WriteOutcomes == IF disk_faults THEN BOOLEAN ELSE {TRUE}

NoListing == [html |-> <<>>, md |-> <<>>]

PipeInit(urlLists, modes, legacyFiles) ==
    /\ essays_json \in legacyFiles
    /\ listing = NoListing
    /\ urls \in urlLists
    /\ mode \in modes
    /\ run = 1
    /\ pc = "ready"
    /\ raised = ""
    /\ task = [i \in 1..Len(urls) |-> IdleTask]
    /\ sem_value = SemaphoreInit
    /\ waiters = <<>>
    /\ done_queue = <<>>
    /\ essays_data = <<>>
    /\ processed_urls = {}
    /\ session = "open"
    /\ merged = FALSE
    /\ generated = FALSE
    /\ index = NoIndex
    /\ files = {}

\* No single method call is being looked at.
CallIdle ==
    /\ call = [fn |-> ""]
    /\ rets = <<>>

DiscIdle ==
    /\ d_pc = "idle"
    /\ d_sitemap = <<>>
    /\ d_feed = <<>>
    /\ d_requests = <<>>
    /\ d_result = <<>>

(***************************************************************************)
(* The pipeline: scrape_posts from line 497 on.                            *)
(***************************************************************************)
\* Lines 497-522: no URL: log and return (the session stays open); otherwise
\* one coroutine per list entry, all wrapped in tasks by as_completed.
CreateTasks ==
    /\ pc = "ready"
    /\ d_pc \in {"idle", "returned"}
    /\ IF urls = <<>>
       THEN /\ pc' = "done"
            /\ UNCHANGED task
       ELSE /\ pc' = "running"
            /\ task' = [i \in Tasks |-> [IdleTask EXCEPT !.pc = "created"]]
    /\ UNCHANGED <<urls, mode, run, raised, sem_value, waiters, done_queue,
                   essays_data, processed_urls, session, merged, generated,
                   cache, index, files, site, disk_faults,
                   discVars, callVars, genVars>>

\* Faulty variant of LeaveGate: the permit is not released.
LeaveGate_NoRelease(i, t, sv) ==
    /\ sem_value' = sv
    /\ waiters' = waiters
    /\ task' = [task EXCEPT ![i] = t]
    /\ done_queue' = Append(done_queue, [res |-> t.res, rec |-> t.rec])

\* Task i leaves the gated block as t with result out: __aexit__ releases the
\* permit (handing it to the first waiter, if any) and the finished task is
\* queued for the as_completed loop.  sv is the semaphore value while i holds
\* its permit.
LeaveGate(i, t, sv) ==
    /\ IF waiters = <<>>
       THEN /\ sem_value' = sv + 1
            /\ waiters' = waiters
            /\ task' = [task EXCEPT ![i] = t]
       ELSE /\ sem_value' = sv
            /\ waiters' = Tail(waiters)
            /\ task' = [task EXCEPT ![i] = t,
                                    ![Head(waiters)].pc = "admitted"]
    /\ done_queue' = Append(done_queue, [res |-> t.res, rec |-> t.rec])

\* Lines 278-302 from the cache lookup to the first suspension.  A hit runs
\* extraction and persistence to the end without suspending; a miss issues the
\* GET and suspends.
EnterGate(i, sv) ==
    LET url    == urls[i]
        cached == get_cached_soup(cache, url)
    IN  IF CacheHit(cached)
        THEN \E mdok, htmlok \in WriteOutcomes :
               LET out == ProcessSoup(cached[1], mode, mdok, htmlok)
                   t   == [task[i] EXCEPT !.pc = "done", !.hit = "hit",
                                          !.res = out.res, !.rec = out.rec,
                                          !.steps = <<"acquire",
                                                      "get_cached_soup">>
                                                    \o out.steps
                                                    \o <<"release">>]
               IN  /\ files' = files \cup out.files
                   /\ LeaveGate(i, t, sv)
                   /\ UNCHANGED cache
        ELSE /\ task' = [task EXCEPT ![i] =
                           [@ EXCEPT !.pc = "fetching",
                                     !.hit = IF cache[url].exists
                                             THEN "readfail" ELSE "miss",
                                     !.gets = @ + 1,
                                     !.steps = <<"acquire", "get_cached_soup",
                                                 "get">>]]
             /\ sem_value' = sv
             /\ UNCHANGED <<waiters, done_queue, cache, files>>

\* The first step of task i (lines 271-285): skip a processed URL, else take
\* a permit and enter the gated block, or queue at the gate.
StartTask(i) ==
    /\ pc = "running"
    /\ task[i].pc = "created"
    /\ processed_urls' = MarkProcessed(urls[i])
    /\ IF AlreadyProcessed(urls[i])
       THEN /\ task' = [task EXCEPT ![i] = [@ EXCEPT !.pc = "done",
                                                     !.hit = "skipped",
                                                     !.res = "none"]]
            /\ done_queue' = Append(done_queue, [res |-> "none", rec |-> <<>>])
            /\ UNCHANGED <<sem_value, waiters, cache, files>>
       ELSE IF CanAcquire
       THEN EnterGate(i, sem_value - 1)
       ELSE /\ task' = [task EXCEPT ![i].pc = "waiting"]
            /\ waiters' = Append(waiters, i)
            /\ UNCHANGED <<sem_value, done_queue, cache, files>>
    /\ UNCHANGED <<urls, mode, run, pc, raised, essays_data, session, merged,
                   generated, index, site, disk_faults, discVars, callVars, genVars>>

\* A task that was handed a permit resumes inside the gated block.
Resume(i) ==
    /\ pc = "running"
    /\ task[i].pc = "admitted"
    /\ EnterGate(i, sem_value)
    /\ UNCHANGED <<urls, mode, run, pc, raised, essays_data, processed_urls,
                   session, merged, generated, index, site, disk_faults, discVars, callVars, genVars>>

\* The answer to task i's GET arrives (lines 285-310).  The two suspensions,
\* session.get and response.text(), touch no shared state between them and
\* are one step.  wok / mdok / htmlok: whether the cache write and the two
\* file writes succeed.
Response(i) ==
    /\ pc = "running"
    /\ AllStarted
    /\ task[i].pc = "fetching"
    /\ \E r \in site, wok, mdok, htmlok \in WriteOutcomes :
         LET exc  == FetchException(r)
             soup == ParseHtmlParser(r.body[1])
             out  == IF exc # ""
                     THEN [res |-> ExceptClauses(exc), rec |-> <<>>,
                           files |-> {}, steps |-> <<>>]
                     ELSE IF save_cached_soup_raises(wok)
                     THEN [res |-> ExceptClauses("OSError"), rec |-> <<>>,
                           files |-> {}, steps |-> <<"save_cached_soup">>]
                     ELSE LET o == ProcessSoup(soup, mode, mdok, htmlok)
                          IN  [o EXCEPT !.res = ExceptClauses(o.res),
                                        !.steps = <<"save_cached_soup">> \o @]
             t    == [task[i] EXCEPT !.pc = "done", !.resp = <<r>>,
                                     !.cw = IF exc # "" THEN ""
                                            ELSE IF wok THEN "ok" ELSE "failed",
                                     !.res = out.res, !.rec = out.rec,
                                     !.steps = @ \o out.steps
                                                 \o <<"release">>]
         IN  /\ cache' = IF exc = ""
                         THEN save_cached_soup(cache, urls[i], soup, wok)
                         ELSE cache
             /\ files' = files \cup out.files
             /\ LeaveGate(i, t, sem_value)
    /\ UNCHANGED <<urls, mode, run, pc, raised, essays_data, processed_urls,
                   session, merged, generated, index, site, disk_faults, discVars, callVars, genVars>>

\* What `result = await coro` does with a finished task's result h (lines
\* 523-525): an exception propagates out of the loop, a dict is appended.
AwaitRaises(h) == h.res \notin {"record", "none"}

\* The unfinished tasks cancelled: a task inside the gated block leaves it
\* through __aexit__, which releases its permit, and a task that was handed
\* a permit and has not resumed gives it back in Semaphore.acquire.
CancelTasks ==
    /\ task' = [i \in Tasks |->
                  IF task[i].pc = "done" THEN task[i]
                  ELSE [task[i] EXCEPT !.pc = "cancelled",
                                       !.steps = IF task[i].pc = "fetching"
                                                 THEN @ \o <<"release">>
                                                 ELSE @]]
    /\ sem_value' = sem_value + Cardinality({i \in Tasks : InGate(i)})
    /\ waiters' = <<>>
    /\ done_queue' = <<>>

\* One turn of the as_completed loop.  When the awaited task raised, the
\* exception leaves scrape_posts through `finally` (the session is closed) and
\* asyncio.run cancels the tasks still pending.
Consume ==
    /\ pc = "running"
    /\ AllStarted
    /\ done_queue # <<>>
    /\ LET h == Head(done_queue)
       IN  IF AwaitRaises(h)
           THEN /\ pc' = "aborted"
                /\ raised' = h.res
                /\ session' = "closed"
                /\ CancelTasks
                /\ UNCHANGED essays_data
           ELSE /\ essays_data' = IF h.res = "record"
                                  THEN essays_data \o h.rec
                                  ELSE essays_data
                /\ done_queue' = Tail(done_queue)
                /\ UNCHANGED <<pc, raised, session, task, waiters, sem_value>>
    /\ UNCHANGED <<urls, mode, run, processed_urls, merged,
                   generated, cache, index, files, site, disk_faults,
                   discVars, callVars, genVars>>

\* Faulty variant of MergeIndex: the new records replace the index.
MergeIndex_Overwrite(existing, new) == new

\* save_essays_data_to_json, line 556: the existing entries, then the new
\* records that are not among the existing ones.
MergeIndex(existing, new) ==
    existing \o SelectSeq(new, LAMBDA d : d \notin Range(existing))

\* Lines 542-551: the existing index, [] when absent or not decodable.
ExistingData(ix) == IF ix.exists /\ ix.decodes THEN ix.data ELSE <<>>

\* Lines 545-553: what reading the existing index raises ("" = nothing).
\* json.JSONDecodeError is caught; any other exception of open / read, such
\* as UnicodeDecodeError, is re-raised as FileSystemError.
ReadIndexRaises(ix) ==
    IF ix.exists /\ ~ix.readable THEN "FileSystemError" ELSE ""

\* Paths, as strings (sequences of characters).  OutputDir is
\* str(self.output_dir), resolved by __init__.
OutputDir   == <<"/", "o">>
PathInside  == <<"/", "o", "/", "d">>
PathSibling == <<"/", "o", "2", "/", "d">>
PathOutside == <<"/", "x">>

\* str.startswith
StartsWith(s, prefix) ==
    Len(s) >= Len(prefix) /\ SubSeq(s, 1, Len(prefix)) = prefix

\* _validate_path (lines 126-133) for a path that resolves to p: what it
\* raises ("" = nothing).
validate_path(p) ==
    IF StartsWith(p, OutputDir) THEN "" ELSE "ValidationError"

\* save_essays_data_to_json (lines 534-562) with the index file ix, the new
\* records new, json_path resolving to target, and wok telling whether the
\* file can be written.  Every exception leaves as FileSystemError.
save_essays_data_to_json(ix, new, target, wok) ==
    IF validate_path(target) # "" \/ ReadIndexRaises(ix) # "" \/ ~wok
    THEN [raised |-> "FileSystemError", index |-> ix, made |-> {},
          written |-> {}]
    ELSE [raised |-> "", made |-> {}, written |-> {target},
          index |-> ArrayIndex(MergeIndex(ExistingData(ix), new))]

\* The file-system steps of save_markdown (lines 411-439) when author_dir
\* resolves to target: mkdir (which makes the directory when fresh, i.e. when
\* it does not exist yet), then _validate_path, then the write, which
\* succeeds iff wok.  Every exception leaves as FileSystemError.  made: the
\* directories created; written: the directories a file was written in.
save_markdown(target, fresh, wok) ==
    LET made == IF fresh THEN {target} ELSE {}
    IN  IF validate_path(target) # "" \/ ~wok
        THEN [raised |-> "FileSystemError", made |-> made, written |-> {}]
        ELSE [raised |-> "", made |-> made, written |-> {target}]

\* save_html (lines 452-484): the same steps under html_save_dir.
save_html(target, fresh, wok) == save_markdown(target, fresh, wok)

(***************************************************************************)
(* The listing generator (Generator.py).                                   *)
(***************************************************************************)
\* Python's a < b on strings of digits (code point order, left to right).
RECURSIVE StrLess(_, _)
StrLess(a, b) ==
    IF a = <<>> THEN b # <<>>
    ELSE IF b = <<>> THEN FALSE
    ELSE IF Head(a) = Head(b) THEN StrLess(Tail(a), Tail(b))
    ELSE DigitValue(Head(a)) < DigitValue(Head(b))

\* post.get(key, default) of an index entry.
Get(entry, key, default) ==
    IF key \in DOMAIN entry THEN entry[key] ELSE default

\* Line 539: the entries load_posts takes.
HasKeys(entry) == {"title", "date", "like_count"} \subseteq DOMAIN entry

\* Lines 529-537: the Post made from an index entry.  A missing link is None,
\* which, like '', counts as no link.
Post(entry) ==
    [title      |-> entry.title,
     date       |-> entry.date,
     like_count |-> entry.like_count,
     subtitle   |-> Get(entry, "subtitle", ""),
     is_paid    |-> Get(entry, "is_paid", FALSE),
     file_link  |-> Get(entry, "file_link", ""),
     html_link  |-> Get(entry, "html_link", "")]

\* Faulty variant of DateLess: dates are compared as numbers would be, a
\* shorter string of digits being the smaller number.
DateLess_Numeric(p, q) ==
    \/ Len(p.date) < Len(q.date)
    \/ Len(p.date) = Len(q.date) /\ StrLess(p.date, q.date)

\* The order of the sort keys (key=lambda x: x.date): str comparison.
DateLess(p, q) == StrLess(p.date, q.date)

\* Where the stable descending sort puts posts[k]: behind the posts with a
\* greater date and behind the earlier posts with the same date.
SortedPlace(posts, k) ==
    1 + Cardinality({j \in 1..Len(posts) : DateLess(posts[k], posts[j])})
      + Cardinality({j \in 1..(k - 1) : posts[j].date = posts[k].date})

\* Line 544: posts.sort(key=lambda x: x.date, reverse=True), a stable sort.
SortByDateDesc(posts) ==
    [r \in 1..Len(posts) |->
        posts[CHOOSE k \in 1..Len(posts) : SortedPlace(posts, k) = r]]

\* Faulty variant of JsonPaths: the index of the run comes first.
JsonPaths_IndexFirst(legacy, ix) == <<ix, legacy>>

\* Lines 516-519: the files load_posts tries, in this order:
\* data/<author>_essays.json, then data/<author>.json.
JsonPaths(legacy, ix) == <<legacy, ix>>

\* ContentGenerator.load_posts (lines 514-544): the posts of the first file
\* of JsonPaths that exists, sorted; no post when neither exists.  A file
\* that cannot be read or decoded makes json.load raise.
load_posts(legacy, ix) ==
    LET paths  == JsonPaths(legacy, ix)
        found  == {k \in 1..Len(paths) : paths[k].exists}
        first  == CHOOSE k \in found : \A j \in found : k <= j
        file   == paths[first]
    IN  IF found = {} THEN [raised |-> "", posts |-> <<>>]
        ELSE IF ~file.readable
        THEN [raised |-> "UnicodeDecodeError", posts |-> <<>>]
        ELSE IF ~file.decodes
        THEN [raised |-> "JSONDecodeError", posts |-> <<>>]
        ELSE [raised |-> "",
              posts  |-> LET kept == SelectSeq(file.data, HasKeys)
                         IN  SortByDateDesc([k \in 1..Len(kept) |->
                                                Post(kept[k])])]

\* Lines 594-595, 669-670: a post without any link is not rendered.
Rendered(post) == post.file_link # "" \/ post.html_link # ""

\* generate_html_content (lines 546-661): per rendered post, in the order of
\* posts, its title and the link behind it (the HTML page if there is one).
generate_html_content(posts) ==
    LET shown == SelectSeq(posts, Rendered)
    IN  [k \in 1..Len(shown) |->
            [title |-> shown[k].title,
             href  |-> IF shown[k].html_link # "" THEN shown[k].html_link
                       ELSE shown[k].file_link]]

\* generate_markdown_content (lines 663-689): per rendered post, in the
\* order of posts, its title and its links.
generate_markdown_content(posts) ==
    LET shown == SelectSeq(posts, Rendered)
    IN  [k \in 1..Len(shown) |->
            [title |-> shown[k].title,
             md    |-> shown[k].file_link,
             html  |-> shown[k].html_link]]

\* Lines 724-746 of Generator._generate_files for the outcome loaded of
\* load_posts: write index.html, write index.md; gok tells whether the two
\* files can be written.  No exception is caught.
write_listing(loaded, gok) ==
    IF loaded.raised # ""
    THEN [raised |-> loaded.raised, posts |-> <<>>, html |-> <<>>,
          md |-> <<>>]
    ELSE IF ~gok
    THEN [raised |-> "OSError", posts |-> loaded.posts, html |-> <<>>,
          md |-> <<>>]
    ELSE [raised |-> "", posts |-> loaded.posts,
          html |-> generate_html_content(loaded.posts),
          md   |-> generate_markdown_content(loaded.posts)]

\* Generator._generate_files (lines 719-747): load the posts, once, and
\* write the listing from them.
generate_files(legacy, ix, gok) ==
    CHOOSE out \in {write_listing(loaded, gok) :
                       loaded \in {load_posts(legacy, ix)}} : TRUE

\* Lines 528-532, after the loop took every task: write the index, generate
\* the listing, close the session.  iok = FALSE: the index cannot be written,
\* and FileSystemError leaves scrape_posts through `finally`; gok = FALSE:
\* the listing cannot be written, and the generator's exception leaves the
\* same way, the index being written already.
FinishRun ==
    /\ pc = "running"
    /\ AllDone
    /\ done_queue = <<>>
    /\ \E iok \in WriteOutcomes, gok \in WriteOutcomes :
         \E saved \in {save_essays_data_to_json(index, essays_data,
                                                PathInside, iok)} :
         \E gen \in {generate_files(essays_json, saved.index, gok)} :
             IF saved.raised # ""
             THEN /\ pc' = "failed"
                  /\ raised' = saved.raised
                  /\ UNCHANGED <<index, merged, generated, listing>>
             ELSE /\ index' = saved.index
                  /\ merged' = TRUE
                  /\ IF gen.raised # ""
                     THEN /\ pc' = "failed"
                          /\ raised' = gen.raised
                          /\ UNCHANGED <<generated, listing>>
                     ELSE /\ pc' = "done"
                          /\ generated' = TRUE
                          /\ listing' = [html |-> gen.html, md |-> gen.md]
                          /\ UNCHANGED raised
    /\ session' = "closed"
    /\ UNCHANGED <<urls, mode, run, task, sem_value, waiters, done_queue,
                   essays_data, processed_urls, cache, files, site,
                   disk_faults, essays_json, discVars, callVars>>

\* What SIGINT / SIGTERM can leave of the index file when signal_handler's
\* sys.exit(0) is raised inside save_essays_data_to_json (lines 558-560):
\* before open() the old file, after json.dump the merged one, in between a
\* file that open(json_path, 'w') emptied and json.dump filled in part.
\* SystemExit is not an Exception: no except clause takes it.
InterruptedSave(ix, new) ==
    {ix, BadJsonIndex, ArrayIndex(MergeIndex(ExistingData(ix), new))}

\* signal_handler (lines 179-183) on a signal that arrives while scrape_posts
\* is inside its try block: close_session is scheduled as a task and
\* SystemExit is raised where the program is.  While the loop waits for
\* tasks, SystemExit ends asyncio.run, which cancels every task; the
\* cancelled main task runs `finally` (the session is closed).  While the
\* main task writes the index, SystemExit passes through the write and
\* through `finally`.
Interrupt ==
    /\ pc = "running"
    /\ pc' = "interrupted"
    /\ raised' = "SystemExit"
    /\ session' = "closed"
    /\ CancelTasks
    /\ IF AllDone /\ done_queue = <<>>
       THEN /\ index' \in InterruptedSave(index, essays_data)
            /\ merged' = (index' # index)
       ELSE UNCHANGED <<index, merged>>
    /\ UNCHANGED <<urls, mode, run, essays_data, processed_urls, generated,
                   cache, files, site, disk_faults, discVars, callVars,
                   genVars>>

\* The program is run again on the same site: a new SubstackScraper, the
\* same output directory (cache, index and files stay).
NewRun ==
    /\ pc \in {"done", "aborted", "failed"}
    /\ run < MaxRuns
    /\ run' = run + 1
    /\ pc' = "ready"
    /\ raised' = ""
    /\ task' = [i \in Tasks |-> IdleTask]
    /\ sem_value' = SemaphoreInit
    /\ waiters' = <<>>
    /\ done_queue' = <<>>
    /\ essays_data' = <<>>
    /\ processed_urls' = {}
    /\ session' = "open"
    /\ merged' = FALSE
    /\ generated' = FALSE
    /\ UNCHANGED <<urls, mode, cache, index, files, site, disk_faults,
                   discVars, callVars, genVars>>

\* Cache.clear_cache, called between runs.
ClearCache ==
    /\ pc = "ready"
    /\ \E u \in DOMAIN cache : cache[u].exists
    /\ cache' = clear_cache(cache)
    /\ UNCHANGED <<urls, mode, run, pc, raised, task, sem_value, waiters,
                   done_queue, essays_data, processed_urls, session, merged,
                   generated, index, files, site, disk_faults, discVars, callVars, genVars>>

\* One run of scrape_posts.  No list of Spec is longer than the gate has
\* permits, so no task ever queues there; Resume belongs to GateNext.
Next ==
    \/ CreateTasks
    \/ \E i \in Tasks : StartTask(i)
    \/ \E i \in Tasks : Response(i)
    \/ Consume
    \/ FinishRun

\* URL lists up to renaming: URLs are numbered in the order of their first
\* occurrence in the list.
Canonical(s) == \A i \in 1..Len(s) :
                  \A u \in SpecUrls : u < s[i] => \E j \in 1..(i-1) : s[j] = u

UrlLists(n) == {s \in SeqsUpTo(SpecUrls, n) : Canonical(s)}

\* The cache directory a run may find: empty, or holding for the first URL a
\* file it cannot read or a page an earlier run stored.
InitialCaches ==
    {[u \in Urls |-> IF u = 1 THEN f ELSE NoFile] :
       f \in {NoFile, UnreadableFile, TextFile(Str(ParseHtmlParser(PageFrag)))}}

Init ==
    /\ PipeInit(UrlLists(MaxUrls), OutputModes, {NoIndex})
    /\ site = Responses
    /\ disk_faults = TRUE
    /\ cache \in InitialCaches
    /\ DiscIdle
    /\ CallIdle

Spec == Init /\ [][Next]_vars

(***************************************************************************)
(* SpecInterrupt: one run that SIGINT or SIGTERM may end.                  *)
(***************************************************************************)
InterruptNext ==
    \/ Next
    \/ Interrupt

SpecInterrupt == Init /\ [][InterruptNext]_vars

(***************************************************************************)
(* SpecGate: one run over more URLs than the gate has permits.             *)
(***************************************************************************)
GateNext ==
    \/ Next
    \/ \E i \in Tasks : Resume(i)

GateInit ==
    /\ PipeInit({GateUrlSeq}, {"both"}, {NoIndex})
    /\ site = {[status |-> 500, body |-> <<>>],
               [status |-> 200, body |-> <<PageFull>>]}
    /\ disk_faults = FALSE
    /\ cache = [u \in Urls |-> NoFile]
    /\ DiscIdle
    /\ CallIdle

SpecGate == GateInit /\ [][GateNext]_vars

\* The same run under the scheduling the event loop gives: a task that can
\* take a step takes it, and every request is answered.
SpecGateFair == SpecGate /\ WF_vars(GateNext)

(***************************************************************************)
(* SpecRerun: the program run again and again on the same site, with the   *)
(* cache possibly cleared between runs.                                    *)
(***************************************************************************)
RerunNext ==
    \/ Next
    \/ NewRun
    \/ ClearCache

\* The first run starts without any readable cache entry.
RerunInit ==
    /\ PipeInit(UrlLists(RerunUrls), {"both"},
                {NoIndex, ArrayIndex(<<>>)})
    /\ site = Responses
    /\ disk_faults = TRUE
    /\ cache \in {c \in InitialCaches : \A u \in Urls : ~c[u].readable}
    /\ DiscIdle
    /\ CallIdle

SpecRerun == RerunInit /\ [][RerunNext]_vars

(***************************************************************************)
(* URL discovery: get_all_post_urls.  A link is a string, modelled as the  *)
(* sequence of its characters; `in` on strings is the substring test.      *)
(***************************************************************************)
\* URL['POST_PATH_PREFIX'] = '/p/'
POST_PATH_PREFIX == <<"/", "p", "/">>
\* CONTENT['EXCLUDED_KEYWORDS'] = ['about', 'archive', 'podcast']
EXCLUDED_KEYWORDS == << <<"a", "b", "o", "u", "t">>,
                        <<"a", "r", "c", "h", "i", "v", "e">>,
                        <<"p", "o", "d", "c", "a", "s", "t">> >>

\* The links a sitemap or feed may list.
LinkPost     == <<"/", "p", "/", "a">>
LinkAbout    == <<"/", "a", "b", "o", "u", "t">>
LinkPodcast  == <<"/", "p", "/", "p", "o", "d", "c", "a", "s", "t">>
LinkHome     == <<"/", "t">>
Links        == {LinkPost, LinkAbout, LinkPodcast, LinkHome}

\* Python's `sub in s` for strings.
Contains(s, sub) ==
    \E k \in 0..(Len(s) - Len(sub)) : SubSeq(s, k + 1, k + Len(sub)) = sub

\* An answer to the sitemap or feed GET: status 0 stands for any exception of
\* the request or of the XML parse; a 200 carries the texts of the <loc> (or
\* <link>) elements in document order.
Answers == {[status |-> 0, links |-> <<>>], [status |-> 404, links |-> <<>>]}
           \cup {[status |-> 200, links |-> l] : l \in SeqsUpTo(Links, MaxLinks)}

\* _fetch_urls_from_sitemap (lines 202-215).
fetch_urls_from_sitemap(a) ==
    IF a.status = 200
    THEN SelectSeq(a.links, LAMBDA url : Contains(url, POST_PATH_PREFIX))
    ELSE <<>>

\* Faulty variant of _fetch_urls_from_feed: only links with '/p/' are kept.
fetch_urls_from_feed_Marker(a) ==
    IF a.status = 200
    THEN SelectSeq(a.links, LAMBDA url : Contains(url, POST_PATH_PREFIX))
    ELSE <<>>

\* _fetch_urls_from_feed (lines 217-229).
fetch_urls_from_feed(a) ==
    IF a.status = 200 THEN a.links ELSE <<>>

\* Faulty variant of filter_urls: a URL is dropped only when it contains
\* every keyword.
filter_urls_AnyAbsent(us, keywords) ==
    SelectSeq(us, LAMBDA url :
        \E k \in 1..Len(keywords) : ~Contains(url, keywords[k]))

\* _filter_urls (lines 231-234).
filter_urls(us, keywords) ==
    SelectSeq(us, LAMBDA url :
        \A k \in 1..Len(keywords) : ~Contains(url, keywords[k]))

\* Faulty variant of DiscoveryRaises: no try/except around the request.
DiscoveryRaises_NoTry(a) == a.status = 0

\* Whether _fetch_urls_from_sitemap / _fetch_urls_from_feed let an exception
\* of the request or of the parse out (lines 213-215, 227-229): they do not.
DiscoveryRaises(a) == FALSE

\* An exception leaving get_all_post_urls leaves scrape_posts at line 493,
\* before its try block.
DiscoveryAborts ==
    /\ d_pc' = "raised"
    /\ pc' = "aborted"
    /\ raised' = "ClientError"
    /\ UNCHANGED <<d_requests, d_result>>

\* get_all_post_urls up to the answer of the sitemap GET (lines 190-200):
\* a non-empty sitemap list is filtered and returned, otherwise the feed is
\* requested.
SitemapAnswer ==
    /\ d_pc = "sitemap"
    /\ \E a \in Answers :
         LET found == fetch_urls_from_sitemap(a)
         IN  /\ d_sitemap' = <<a>>
             /\ IF DiscoveryRaises(a)
                THEN DiscoveryAborts
                ELSE /\ UNCHANGED <<pc, raised>>
                     /\ IF found # <<>>
                        THEN /\ d_result' = filter_urls(found, EXCLUDED_KEYWORDS)
                             /\ d_pc' = "done"
                             /\ UNCHANGED d_requests
                        ELSE /\ d_pc' = "feed"
                             /\ d_requests' = Append(d_requests, "/feed")
                             /\ UNCHANGED d_result
    /\ UNCHANGED <<d_feed, urls, pipeRest, callVars>>

\* The answer of the feed GET (lines 193-200).
FeedAnswer ==
    /\ d_pc = "feed"
    /\ \E a \in Answers :
         /\ d_feed' = <<a>>
         /\ IF DiscoveryRaises(a)
            THEN DiscoveryAborts
            ELSE /\ d_result' = filter_urls(fetch_urls_from_feed(a),
                                            EXCLUDED_KEYWORDS)
                 /\ d_pc' = "done"
                 /\ UNCHANGED <<pc, raised, d_requests>>
    /\ UNCHANGED <<d_sitemap, urls, pipeRest, callVars>>

\* num_posts_to_scrape: 0 for all posts, else the number of posts to take.
NumPosts == 0..MaxLinks

\* scrape_posts, lines 493-497: the discovered list, cut to the first
\* num_posts_to_scrape entries when that number is not 0.
PostUrls ==
    /\ d_pc = "done"
    /\ pc = "ready"
    /\ \E n \in NumPosts :
         urls' = IF n = 0 \/ n >= Len(d_result) THEN d_result
                 ELSE SubSeq(d_result, 1, n)
    /\ d_pc' = "returned"
    /\ UNCHANGED <<pc, raised, pipeRest, d_sitemap, d_feed, d_requests,
                   d_result, callVars>>

\* scrape_posts up to the creation of its tasks.
DiscNext ==
    \/ SitemapAnswer
    \/ FeedAnswer
    \/ PostUrls
    \/ CreateTasks

\* get_all_post_urls has issued the sitemap GET; the pipeline has not begun.
DiscInit ==
    /\ PipeInit({<<>>}, {"both"}, {NoIndex})
    /\ site = Responses
    /\ disk_faults = TRUE
    /\ cache = [u \in Urls |-> NoFile]
    /\ d_pc = "sitemap"
    /\ d_sitemap = <<>>
    /\ d_feed = <<>>
    /\ d_requests = <<"/sitemap.xml">>
    /\ d_result = <<>>
    /\ CallIdle

SpecDiscovery == DiscInit /\ [][DiscNext]_vars

(***************************************************************************)
(* SpecCalls: single calls of the methods that are functions of their      *)
(* arguments and of the files they touch.  Init draws one call, the        *)
(* actions make it.                                                        *)
(***************************************************************************)
\* A link that differs from an excluded keyword by case only.
LinkCaps == <<"/", "p", "/", "A", "b", "o", "u", "t">>

\* Keyword lists _filter_urls is called with: the configured one, none, and
\* one made of the post marker and a single letter.
KeywordLists == {EXCLUDED_KEYWORDS, <<>>, <<POST_PATH_PREFIX, <<"t">> >>}

FilterCalls ==
    {[fn |-> "_filter_urls", urls |-> l, keywords |-> k] :
        l \in SeqsUpTo(Links \cup {LinkCaps}, MaxLinks), k \in KeywordLists}

\* _filter_urls(urls, keywords), then _filter_urls of its result.
ApplyFilter ==
    /\ call.fn = "_filter_urls"
    /\ Len(rets) < 2
    /\ rets' = Append(rets,
                      filter_urls(IF rets = <<>> THEN call.urls
                                  ELSE rets[Len(rets)],
                                  call.keywords))
    /\ UNCHANGED <<call, pipeVars, discVars>>

\* Records of two posts, as _process_single_url returns them in mode 'both'.
RecordA == WithHtmlLink(WithFileLink(extract_post_data(PageFull)))
RecordB == WithHtmlLink(WithFileLink(extract_post_data(PageFrag)))
Records == {RecordA, RecordB}

\* Index files save_essays_data_to_json may find.
IndexFiles == {NoIndex, BadJsonIndex, NotTextIndex}
              \cup {ArrayIndex(d) : d \in SeqsUpTo(Records, MaxRecords)}

\* What the path a save validates may resolve to: a path under the output
\* directory, or, through a symbolic link, one under a sibling directory
\* or elsewhere.
Targets == {PathInside, PathSibling, PathOutside}

JsonCalls ==
    {[fn |-> "save_essays_data_to_json", index |-> ix, essays_data |-> n,
      target |-> t, wok |-> w] :
        ix \in IndexFiles, n \in SeqsUpTo(Records, MaxRecords),
        t \in Targets, w \in BOOLEAN}

PostCalls ==
    {[fn |-> f, target |-> t, fresh |-> fr, wok |-> w] :
        f \in {"save_markdown", "save_html"}, t \in Targets,
        fr \in BOOLEAN, w \in BOOLEAN}

ExtractCalls == {[fn |-> "extract_post_data", soup |-> d] : d \in Markup}

\* Host names (urlparse(url).netloc), as sequences of tokens: a label or ".".
Labels == {"blog", "example", "substack", "com"}

\* The labels joined by dots.
RECURSIVE JoinDots(_)
JoinDots(labels) ==
    IF Len(labels) <= 1 THEN labels
    ELSE <<Head(labels), ".">> \o JoinDots(Tail(labels))

\* str.split('.') of a host name.
RECURSIVE SplitDots(_)
SplitDots(netloc) ==
    IF netloc = <<>> THEN <<"">>
    ELSE IF Head(netloc) = "." THEN <<"">> \o SplitDots(Tail(netloc))
    ELSE <<Head(netloc)>> \o Tail(SplitDots(Tail(netloc)))

\* _extract_main_part (lines 135-145): parts[len(parts) // 2] of the
\* dot-split host (Python indexes from 0).
extract_main_part(netloc) ==
    LET parts == SplitDots(netloc)
    IN  parts[(Len(parts) \div 2) + 1]

MainPartCalls ==
    {[fn |-> "_extract_main_part", labels |-> l, netloc |-> JoinDots(l)] :
        l \in SeqsUpTo(Labels, MaxLabels) \ {<<>>}}

\* _extract_main_part(url).
ApplyMainPart ==
    /\ call.fn = "_extract_main_part"
    /\ rets = <<>>
    /\ rets' = <<extract_main_part(call.netloc)>>
    /\ UNCHANGED <<call, pipeVars, discVars>>

\* Entries an index file may hold: records with every date, with and without
\* a link, and one without the 'date' key.
GenEntries ==
    {[title |-> t, date |-> d, like_count |-> 0, file_link |-> l] :
        t \in {"A", "B"}, d \in DateTexts, l \in {"", "md"}}
    \cup {[title |-> "A", like_count |-> 0, file_link |-> "md"]}

\* The files under data/ the generator may find.
GenLegacyFiles == {NoIndex, ArrayIndex(<<>>)}
                  \cup {ArrayIndex(<<x>>) : x \in GenEntries}
GenIndexFiles  == {NoIndex}
                  \cup {ArrayIndex(d) : d \in SeqsUpTo(GenEntries, MaxRecords)}

GenerateCalls ==
    {[fn |-> "_generate_files", legacy |-> l, index |-> ix] :
        l \in GenLegacyFiles, ix \in GenIndexFiles}

\* Generator._generate_files().
ApplyGenerate ==
    /\ call.fn = "_generate_files"
    /\ rets = <<>>
    /\ \E gok \in BOOLEAN :
         rets' = <<generate_files(call.legacy, call.index, gok)>>
    /\ UNCHANGED <<call, pipeVars, discVars>>

\* save_essays_data_to_json(essays_data), and the same call once more on the
\* index file the first call left.
ApplySaveJson ==
    /\ call.fn = "save_essays_data_to_json"
    /\ Len(rets) < 2
    /\ rets' = Append(rets,
                      save_essays_data_to_json(
                          IF rets = <<>> THEN call.index
                          ELSE rets[Len(rets)].index,
                          call.essays_data, call.target, call.wok))
    /\ UNCHANGED <<call, pipeVars, discVars>>

\* save_markdown(post_data) / save_html(post_data).
ApplySavePost ==
    /\ call.fn \in {"save_markdown", "save_html"}
    /\ rets = <<>>
    /\ rets' = <<IF call.fn = "save_markdown"
                 THEN save_markdown(call.target, call.fresh, call.wok)
                 ELSE save_html(call.target, call.fresh, call.wok)>>
    /\ UNCHANGED <<call, pipeVars, discVars>>

\* extract_post_data(soup).
ApplyExtract ==
    /\ call.fn = "extract_post_data"
    /\ rets = <<>>
    /\ rets' = <<[raised |-> extract_post_data_raises(call.soup),
                  rec    |-> IF extract_post_data_raises(call.soup) = ""
                             THEN <<extract_post_data(call.soup)>>
                             ELSE <<>>]>>
    /\ UNCHANGED <<call, pipeVars, discVars>>

CallNext ==
    \/ ApplyFilter
    \/ ApplySaveJson
    \/ ApplySavePost
    \/ ApplyExtract
    \/ ApplyMainPart
    \/ ApplyGenerate

CallInit ==
    /\ PipeInit({<<>>}, {"both"}, {NoIndex})
    /\ site = Responses
    /\ disk_faults = TRUE
    /\ cache = [u \in Urls |-> NoFile]
    /\ DiscIdle
    /\ rets = <<>>
    /\ \/ call \in FilterCalls
       \/ call \in JsonCalls
       \/ call \in PostCalls
       \/ call \in ExtractCalls
       \/ call \in MainPartCalls
       \/ call \in GenerateCalls

SpecCalls == CallInit /\ [][CallNext]_vars

(***************************************************************************)
(* Properties.                                                             *)
(***************************************************************************)
\* The HTTP status task i's GET was answered with (0: transport failure),
\* -1 while there is no answer.
StatusOf(i) == IF task[i].resp = <<>> THEN -1 ELSE task[i].resp[1].status

Non200(i) == StatusOf(i) \notin {-1, 0, 200}

RecordTasks == {i \in Tasks : task[i].res = "record"}

\* C1: a URL whose GET is answered with a non-200 status yields no record,
\* raises nothing out of its task and is requested exactly once; such a URL
\* never ends the run (a run that was aborted was aborted by an exception
\* other than NetworkError), and a run that completes has collected the
\* record of every task that produced one and nothing else.  In particular
\* (scenario B) a completed run over two URLs, one answered 500 and one
\* yielding a record, holds exactly one record.
C1_Non200YieldsNoRecord ==
    /\ \A i \in Tasks : Non200(i) =>
          /\ task[i].pc = "done"
          /\ task[i].res = "none"
          /\ task[i].rec = <<>>
          /\ task[i].gets = 1
    /\ pc = "aborted" => /\ raised # "NetworkError"
                         /\ \E j \in Tasks : task[j].res = raised
    /\ pc = "done" =>
          /\ Len(essays_data) = Cardinality(RecordTasks)
          /\ \A j \in RecordTasks : task[j].rec[1] \in Range(essays_data)
    /\ (/\ pc = "done"
        /\ Len(urls) = 2
        /\ \E i, j \in Tasks : /\ StatusOf(i) = 500
                               /\ StatusOf(j) = 200
                               /\ task[j].res = "record")
       => Len(essays_data) = 1 /\ Len(index.data) = 1

\* C1, reached: a completed run over two URLs, the first answered 500, the
\* second one fetched and saved.
C1_Witness ==
    /\ pc = "done"
    /\ Len(urls) = 2
    /\ StatusOf(1) = 500 /\ task[1].res = "none" /\ task[1].gets = 1
    /\ StatusOf(2) = 200 /\ task[2].res = "record"
    /\ Len(essays_data) = 1

\* C2: an exception other than NetworkError raised while one URL is processed
\* (ContentError, FileSystemError) does not abort the run: scrape_posts does
\* not end with it, and no task is cancelled because of it.
C2_OtherExceptionsDoNotAbort ==
    ~(pc = "aborted" /\ raised \in {"ContentError", "FileSystemError"})

\* C3: a transport failure of a URL's GET is caught inside
\* _process_single_url like a NetworkError: the task returns None.
C3_TransportFailureIsCaught ==
    \A i \in Tasks : StatusOf(i) = 0 => task[i].res = "none"

\* C4: when a run that processed at least one URL has ended (completed, or
\* ended by a task's exception), every record a task produced, its files
\* written, is in the JSON index.
C4_SavedRecordsAreIndexed ==
    (pc \in {"done", "aborted"} /\ urls # <<>>) =>
        \A i \in RecordTasks :
            /\ index.exists
            /\ task[i].rec[1] \in Range(index.data)

\* C5: once a run has made its tasks every URL has one; at most
\* MAX_CONCURRENT_REQUESTS tasks hold the fetch gate at any time, and a task
\* waits at the gate only while all permits are taken.
C5_GateBoundsFetching ==
    /\ pc = "running" => \A i \in Tasks : task[i].pc # "idle"
    /\ Cardinality({i \in Tasks : InGate(i)}) <= MAX_CONCURRENT_REQUESTS
    /\ \A i \in Tasks : task[i].pc = "waiting" =>
          /\ Cardinality({j \in Tasks : InGate(j)}) = MAX_CONCURRENT_REQUESTS
          /\ i \in Range(waiters)

\* C5, reached: all permits are taken and a task waits at the gate.
C5_Witness ==
    /\ \E i \in Tasks : task[i].pc = "waiting"
    /\ Cardinality({i \in Tasks : task[i].pc = "fetching"}) = MAX_CONCURRENT_REQUESTS

\* C6: of the tasks of one URL string at most one gets past the
\* processed-URL test (fetches, extracts, persists); the others are skipped.
C6_UrlProcessedOnce ==
    \A i, j \in Tasks :
        (i # j /\ urls[i] = urls[j]) =>
            ~(/\ task[i].hit \in {"hit", "miss", "readfail"}
              /\ task[j].hit \in {"hit", "miss", "readfail"})

\* Task i does its cache lookup in this step.
LooksUp(i) ==
    /\ task[i].pc \in {"created", "admitted"}
    /\ task'[i].hit \in {"hit", "miss", "readfail"}

\* C7: (a) a cache file is written only in the step in which a task of that
\* URL receives a 200 answer; (b) a task that looks a URL up while a readable
\* entry exists issues no GET, leaves the cache as it is and works on the
\* cached document; (c) an entry disappears only by clear_cache.
C7_CacheEntryLifecycle ==
    [][ /\ \A u \in Urls :
              (cache'[u] # cache[u] /\ cache'[u].exists) =>
                  \E i \in Tasks : /\ urls[i] = u
                                   /\ task[i].pc = "fetching"
                                   /\ task'[i].pc = "done"
                                   /\ task'[i].resp[1].status = 200
        /\ \A i \in Tasks :
              (LooksUp(i) /\ cache[urls[i]].exists /\ cache[urls[i]].readable) =>
                  /\ task'[i].hit = "hit"
                  /\ task'[i].gets = 0
                  /\ task'[i].resp = <<>>
                  /\ cache' = cache
                  /\ task'[i].pc = "done"
                  /\ task'[i].res = "record" =>
                        task'[i].rec[1].title =
                            extract_post_data(cache[urls[i]].text).title
        /\ \A u \in Urls :
              (cache[u].exists /\ ~cache'[u].exists) =>
                  (pc = "ready" /\ cache' = clear_cache(cache))
      ]_vars

\* C7, reached: in a second run a URL fetched and cached by the first run is
\* served from the cache, without a GET.
C7_Witness ==
    /\ run = 2
    /\ \E i \in Tasks : /\ task[i].hit = "hit"
                         /\ task[i].gets = 0
                         /\ task[i].res = "record"

\* C8: when a task has stored the document it fetched, get_cached_soup of the
\* URL returns a document that serialises to the same text as the stored one.
C8_CacheRoundTrip ==
    [][ \A i \in Tasks :
          (task[i].pc = "fetching" /\ task'[i].pc = "done" /\ task'[i].cw = "ok") =>
              LET got == get_cached_soup(cache', urls[i])
              IN  /\ got # <<>>
                  /\ Str(got[1]) = Str(ParseHtmlParser(task'[i].resp[1].body[1]))
      ]_vars

\* C9: no cache failure surfaces.  A task never ends with an exception of the
\* cache; a lookup that finds no entry or an unreadable one is followed by the
\* GET; a task whose cache write failed ends as the page and the file writes
\* alone decide: with a record when the page has a content container and the
\* files could be written.
C9_CacheFailuresNeverSurface ==
    \A i \in Tasks :
        /\ task[i].res \in {"", "record", "none", "ContentError",
                            "FileSystemError", "ClientError"}
        /\ task[i].hit \in {"miss", "readfail"} => task[i].gets = 1
        /\ task[i].cw = "failed" =>
              /\ task[i].res \in {"record", "ContentError", "FileSystemError"}
              /\ task[i].res = "ContentError" <=>
                    ~HasContentDiv(ParseHtmlParser(task[i].resp[1].body[1]))

\* C9, reached: the cache file could not be read, the page was fetched, the
\* cache write failed, and the URL still produced its record.
C9_Witness ==
    \E i \in Tasks : /\ task[i].hit = "readfail"
                     /\ task[i].gets = 1
                     /\ task[i].cw = "failed"
                     /\ task[i].res = "record"

HasMarker(l)   == Contains(l, POST_PATH_PREFIX)
NotExcluded(l) == \A k \in 1..Len(EXCLUDED_KEYWORDS) :
                     ~Contains(l, EXCLUDED_KEYWORDS[k])

\* The links of seq with '/p/', in order.
RECURSIVE WithMarker(_)
WithMarker(seq) ==
    IF seq = <<>> THEN <<>>
    ELSE (IF HasMarker(Head(seq)) THEN <<Head(seq)>> ELSE <<>>)
         \o WithMarker(Tail(seq))

\* Filter: the links of seq without an excluded keyword, in order.
RECURSIVE Filtered(_)
Filtered(seq) ==
    IF seq = <<>> THEN <<>>
    ELSE (IF NotExcluded(Head(seq)) THEN <<Head(seq)>> ELSE <<>>)
         \o Filtered(Tail(seq))

\* S: the sitemap's <loc> values with '/p/'; F: all <link> values of the feed.
SitemapPosts == IF d_sitemap # <<>> /\ d_sitemap[1].status = 200
                THEN WithMarker(d_sitemap[1].links) ELSE <<>>
FeedLinks    == IF d_feed # <<>> /\ d_feed[1].status = 200
                THEN d_feed[1].links ELSE <<>>

\* C10: get_all_post_urls returns Filter(S) when S is not empty and Filter(F)
\* otherwise; the feed is requested exactly when S is empty; a link without
\* '/p/' is never returned from the sitemap.
C10_DiscoverySources ==
    /\ d_pc = "done" =>
          /\ d_result = IF SitemapPosts # <<>>
                        THEN Filtered(SitemapPosts)
                        ELSE Filtered(FeedLinks)
          /\ SitemapPosts # <<>> => d_feed = <<>> /\ d_requests = <<"/sitemap.xml">>
          /\ SitemapPosts = <<>>
                => d_feed # <<>> /\ d_requests = <<"/sitemap.xml", "/feed">>
          /\ d_feed = <<>> => \A k \in 1..Len(d_result) : HasMarker(d_result[k])
    /\ d_pc = "sitemap" => d_requests = <<"/sitemap.xml">>

\* C10, reached: the sitemap answered 404, the feed listed a link without
\* '/p/' beside an excluded one, and discovery returned the former only.
C10_Witness ==
    /\ d_pc = "done"
    /\ d_sitemap[1].status = 404
    /\ d_feed[1].status = 200
    /\ d_feed[1].links = <<LinkHome, LinkAbout>>
    /\ d_result = <<LinkHome>>

\* C11: URL discovery propagates no error.  A source whose request or parse
\* failed counts as a source without links: after a failed sitemap the feed is
\* asked, and when neither source gave a link get_all_post_urls returns the
\* empty list; scrape_posts then returns without an exception and writes
\* neither the index nor the listing.
C11_DiscoveryNeverRaises ==
    /\ raised = "" /\ pc # "aborted" /\ d_pc # "raised"
    /\ (d_sitemap # <<>> /\ d_sitemap[1].status # 200) =>
          d_requests = <<"/sitemap.xml", "/feed">>
    /\ (d_pc \in {"done", "returned"} /\ SitemapPosts = <<>> /\ FeedLinks = <<>>)
          => d_result = <<>>
    /\ (d_pc = "returned" /\ d_result = <<>> /\ pc # "ready") =>
          /\ pc = "done"
          /\ urls = <<>> /\ task = <<>>
          /\ ~merged /\ ~generated /\ index = NoIndex /\ files = {}

\* C11, reached: the sitemap request and the feed request both failed and
\* scrape_posts has returned.
C11_Witness ==
    /\ d_pc = "returned"
    /\ d_sitemap[1].status = 0
    /\ d_feed[1].status = 0
    /\ pc = "done"
    /\ raised = ""

\* The elements of seq that contain none of the keywords, in seq's order.
RECURSIVE WithoutKeywords(_, _)
WithoutKeywords(seq, keywords) ==
    IF seq = <<>> THEN <<>>
    ELSE (IF \E k \in 1..Len(keywords) : Contains(Head(seq), keywords[k])
          THEN <<>> ELSE <<Head(seq)>>)
         \o WithoutKeywords(Tail(seq), keywords)

\* C12: _filter_urls(urls, keywords) is the list of the elements of urls that
\* contain no keyword as a substring (case matters), in their order, and
\* filtering the result again with the same keywords returns it unchanged.
C12_FilterUrls ==
    call.fn = "_filter_urls" =>
        /\ Len(rets) >= 1 => rets[1] = WithoutKeywords(call.urls, call.keywords)
        /\ Len(rets) = 2 => rets[2] = rets[1]

\* C12, reached: of a link with 'about' and one with 'About' the configured
\* keywords keep the second; filtering twice gave the same list.
C12_Witness ==
    /\ call.fn = "_filter_urls"
    /\ call.urls = <<LinkAbout, LinkCaps>>
    /\ call.keywords = EXCLUDED_KEYWORDS
    /\ rets = << <<LinkCaps>>, <<LinkCaps>> >>

\* C13: the list get_all_post_urls returns holds no URL twice.
C13_DiscoveredUrlsAreDistinct ==
    d_pc \in {"done", "returned"} =>
        \A i, j \in 1..Len(d_result) : d_result[i] = d_result[j] => i = j

\* The records of new that are not entries of existing, in new's order.
RECURSIVE NotAmong(_, _)
NotAmong(new, existing) ==
    IF new = <<>> THEN <<>>
    ELSE (IF \E k \in 1..Len(existing) : existing[k] = Head(new)
          THEN <<>> ELSE <<Head(new)>>)
         \o NotAmong(Tail(new), existing)

IsPrefix(s, t) == Len(s) <= Len(t) /\ SubSeq(t, 1, Len(s)) = s

Occurrences(r, seq) == Cardinality({k \in 1..Len(seq) : seq[k] = r})

\* C15: when a record list has been merged into the index twice, the second
\* merge left the index as the first one wrote it, and every record of the
\* list is in the index exactly once.
C15_IndexMergeIdempotent ==
    (/\ call.fn = "save_essays_data_to_json"
     /\ Len(rets) = 2
     /\ rets[1].raised = "" /\ rets[2].raised = "") =>
        /\ rets[2].index = rets[1].index
        /\ \A r \in Range(call.essays_data) :
              Occurrences(r, rets[2].index.data) = 1

\* C16: when the index file exists but cannot be decoded as JSON (and the
\* file can be written), save_essays_data_to_json raises nothing and leaves
\* an index holding exactly the new records.
C16_UndecodableIndexStartsFresh ==
    (/\ call.fn = "save_essays_data_to_json"
     /\ call.index.exists /\ ~call.index.decodes
     /\ call.target = PathInside /\ call.wok
     /\ rets # <<>>) =>
        /\ rets[1].raised = ""
        /\ rets[1].index.exists /\ rets[1].index.decodes
        /\ rets[1].index.data = call.essays_data

\* The link fields of record r are what output mode m asks for, one of them
\* at least is set, and the files they name were written.
LinksSet(r, m) ==
    /\ r.file_link # "" \/ r.html_link # ""
    /\ m \in {"both", "md"} => r.file_link # "" /\ <<"md", r.title>> \in files
    /\ m \in {"both", "html"} =>
          r.html_link # "" /\ <<"html", r.title>> \in files

\* C17: in every output mode, every record a task returned, every record the
\* run collected and every record the run put into the index has file_link
\* or html_link set, the per-post file behind the link having been written.
C17_IndexedRecordsHaveLinks ==
    /\ \A i \in RecordTasks : LinksSet(task[i].rec[1], mode)
    /\ \A k \in 1..Len(essays_data) : LinksSet(essays_data[k], mode)
    /\ \A k \in 1..Len(index.data) : LinksSet(index.data[k], mode)

\* C17, reached: a run in mode 'html' indexed a record that has html_link
\* set and no file_link.
C17_Witness ==
    /\ mode = "html"
    /\ pc = "done"
    /\ index.data # <<>>
    /\ index.data[1].file_link = ""
    /\ index.data[1].html_link # ""

\* p lies inside the output directory: it is the directory or a path below it.
InsideRoot(p) == p = OutputDir \/ StartsWith(p, OutputDir \o <<"/">>)

\* C18: save_markdown, save_html and save_essays_data_to_json write only
\* inside the output directory; when the path they validate resolves to a
\* place outside of it (a sibling directory whose name begins like the output
\* directory's included) they raise ValidationError, having created no
\* directory and written no file.
C18_WritesStayInsideOutputDir ==
    (/\ call.fn \in {"save_markdown", "save_html", "save_essays_data_to_json"}
     /\ rets # <<>>) =>
        \A k \in 1..Len(rets) :
            /\ \A p \in rets[k].written \cup rets[k].made : InsideRoot(p)
            /\ ~InsideRoot(call.target) =>
                  /\ rets[k].raised = "ValidationError"
                  /\ rets[k].made = {} /\ rets[k].written = {}

\* C19: extract_post_data raises ContentError exactly for a document without
\* a div.body and without a div.post-content, and raises nothing else; the
\* content is taken from div.body when there is one, else from
\* div.post-content; a document without <h1>, <h2>, <time> or like-count
\* span gets 'Untitled', '', '' and 0.
C19_ExtractFailsOnlyWithoutContainer ==
    (call.fn = "extract_post_data" /\ rets # <<>>) =>
        LET d == call.soup
            r == rets[1]
        IN  /\ r.raised \in {"", "ContentError"}
            /\ r.raised = "ContentError" <=>
                  ("body" \notin d.divs /\ "post-content" \notin d.divs)
            /\ r.raised = "" =>
                  /\ r.rec # <<>>
                  /\ r.rec[1].content =
                        IF "body" \in d.divs THEN "body" ELSE "post-content"
                  /\ r.rec[1].title = IF d.h1 = "" THEN "Untitled" ELSE d.h1
                  /\ d.h2 = "" => r.rec[1].subtitle = ""
                  /\ d.time = <<>> => r.rec[1].date = <<>>
                  /\ d.like = <<>> => r.rec[1].like_count = 0

\* C19, reached: a document with both containers and none of the optional
\* elements was extracted from its div.body, with all defaults.
C19_Witness ==
    /\ call.fn = "extract_post_data"
    /\ call.soup.divs = {"body", "post-content"}
    /\ call.soup.h1 = "" /\ call.soup.h2 = "" /\ call.soup.time = <<>>
    /\ call.soup.like = <<>>
    /\ rets # <<>>
    /\ rets[1].raised = ""
    /\ rets[1].rec[1].title = "Untitled"
    /\ rets[1].rec[1].content = "body"
    /\ rets[1].rec[1].like_count = 0

\* C20: the like_count of every extracted record is an integer >= 0, and 0
\* when the document has no like-count element.
C20_LikeCountIsNatural ==
    (call.fn = "extract_post_data" /\ rets # <<>> /\ rets[1].raised = "") =>
        /\ rets[1].rec[1].like_count \in Nat
        /\ call.soup.like = <<>> => rets[1].rec[1].like_count = 0

\* C21: for a host of three labels _extract_main_part returns the middle
\* label, and for example.substack.com as for blog.example.com that name is
\* 'example'.
C21_MainPartOfThreeLabels ==
    (call.fn = "_extract_main_part" /\ Len(call.labels) = 3 /\ rets # <<>>) =>
        /\ rets[1] = call.labels[2]
        /\ call.labels \in {<<"example", "substack", "com">>,
                             <<"blog", "example", "com">>}
              => rets[1] = "example"

\* C22: for a host of two labels (name.tld) _extract_main_part returns the
\* first label, the site's name.
C22_MainPartOfTwoLabels ==
    (call.fn = "_extract_main_part" /\ Len(call.labels) = 2 /\ rets # <<>>) =>
        rets[1] = call.labels[1]

\* The file load_posts reads: the legacy file when it exists, else the index.
LoadedFile == IF call.legacy.exists THEN call.legacy ELSE call.index

\* C23: the posts load_posts leaves are, up to order, the entries of the file
\* it read that have the keys title, date and like_count, one post per
\* entry; no post is followed by a post with a greater date, dates compared
\* as strings; and both listings show the posts that have a link in the
\* order of the posts.
C23_PostsSortedByDateString ==
    (call.fn = "_generate_files" /\ rets # <<>> /\ rets[1].raised = "") =>
        LET posts == rets[1].posts
            keyed == SelectSeq(LoadedFile.data, HasKeys)
            shown == SelectSeq(posts, Rendered)
        IN  /\ Len(posts) = Len(keyed)
            /\ \A k \in 1..Len(keyed) :
                  Cardinality({j \in 1..Len(posts) : posts[j] = Post(keyed[k])})
                  = Cardinality({j \in 1..Len(keyed) : keyed[j] = keyed[k]})
            /\ \A k \in 1..(Len(posts) - 1) :
                  ~StrLess(posts[k].date, posts[k + 1].date)
            /\ Len(rets[1].html) = Len(shown) /\ Len(rets[1].md) = Len(shown)
            /\ \A k \in 1..Len(shown) :
                  /\ rets[1].html[k].title = shown[k].title
                  /\ rets[1].md[k].title = shown[k].title

\* C23, reached: of the dates '10' and '9' the post dated '9' comes first in
\* the posts and in both listings ('9' > '10' as strings).
C23_Witness ==
    /\ call.fn = "_generate_files"
    /\ ~call.legacy.exists
    /\ rets # <<>>
    /\ rets[1].raised = ""
    /\ Len(rets[1].posts) = 2
    /\ rets[1].posts[1].date = <<"9">> /\ rets[1].posts[2].date = <<"1", "0">>
    /\ rets[1].posts[1].title = "B" /\ rets[1].posts[2].title = "A"
    /\ Len(rets[1].html) = 2 /\ rets[1].html[1].title = "B"
    /\ Len(rets[1].md) = 2 /\ rets[1].md[1].title = "B"

\* C24: when the first run over an output directory without an index ends
\* with the listing generated, every record the run collected that has a link
\* is shown in the Markdown and in the HTML listing, whether or not
\* data/<author>_essays.json exists.
C24_ListingShowsTheRunsRecords ==
    (run = 1 /\ pc = "done" /\ generated) =>
        \A k \in 1..Len(essays_data) :
            LET r == essays_data[k]
            IN  (r.file_link # "" \/ r.html_link # "") =>
                  /\ \E j \in 1..Len(listing.md) :
                        /\ listing.md[j].title = r.title
                        /\ listing.md[j].md = r.file_link
                        /\ listing.md[j].html = r.html_link
                  /\ \E j \in 1..Len(listing.html) :
                        listing.html[j].title = r.title

\* The index file the run of SpecInterrupt started with: none.
PreRunIndex == NoIndex

\* C25: after an interrupt the session is closed and the index file holds
\* either its complete content from before the run or the complete merge of
\* that content with the records collected.
C25_InterruptLeavesIndexWhole ==
    pc = "interrupted" =>
        /\ session = "closed"
        /\ index \in {PreRunIndex,
                       ArrayIndex(MergeIndex(ExistingData(PreRunIndex),
                                             essays_data))}

\* C26: however a run ended (normally, without URLs, on an exception of a
\* task or of the index merge, on a signal), the session is closed.
C26_SessionClosedOnEveryEnd ==
    pc \in {"done", "aborted", "failed", "interrupted"} => session = "closed"

\* The place of step name in steps (0: not among them).
Place(steps, name) ==
    IF \E k \in 1..Len(steps) : steps[k] = name
    THEN CHOOSE k \in 1..Len(steps) : steps[k] = name
    ELSE 0

StepAt(i, name) == Place(task[i].steps, name)

\* C27: a task that extracted released the fetch gate before: after storing
\* the document in the cache (when it stored one) and before
\* extract_post_data, save_markdown and save_html.
C27_GateReleasedBeforeExtraction ==
    \A i \in Tasks :
        (task[i].pc = "done" /\ StepAt(i, "extract_post_data") > 0) =>
            /\ StepAt(i, "release") > StepAt(i, "save_cached_soup")
            /\ StepAt(i, "release") < StepAt(i, "extract_post_data")

C29_CacheHoldsEveryFetchedPage ==
    \A i \in Tasks :
        (task[i].pc = "done" /\ task[i].resp # <<>>
         /\ task[i].resp[1].status = 200) =>
            cache[urls[i]].exists /\ cache[urls[i]].readable

\* The cached document of url has no content container.
CachedWithoutContainer(c, url) ==
    /\ c[url].exists /\ c[url].readable
    /\ ~HasContentDiv(ParseLxml(c[url].text))

\* C29, amended: (a) a task whose 200 answer was written to the cache leaves
\* the fetched document there, whatever extraction and persistence then do,
\* and stored it before extract_post_data; (b) a task that looks up a URL
\* whose cached document has no content container issues no GET, leaves the
\* cache as it is and ends with ContentError; (c) such an entry changes only
\* by clear_cache or by a task that was already fetching the URL.
C29_StoredBeforeExtraction ==
    [][ /\ \A i \in Tasks :
              (task[i].pc = "fetching" /\ task'[i].pc = "done"
               /\ task'[i].cw = "ok") =>
                  /\ cache'[urls[i]] =
                        TextFile(Str(ParseHtmlParser(task'[i].resp[1].body[1])))
                  /\ Place(task'[i].steps, "save_cached_soup") > 0
                  /\ Place(task'[i].steps, "extract_post_data")
                        > Place(task'[i].steps, "save_cached_soup")
        /\ \A i \in Tasks :
              (LooksUp(i) /\ CachedWithoutContainer(cache, urls[i])) =>
                  /\ task'[i].gets = 0
                  /\ task'[i].res = "ContentError"
                  /\ cache' = cache
        /\ \A u \in Urls :
              (CachedWithoutContainer(cache, u) /\ cache'[u] # cache[u]) =>
                  \/ pc = "ready" /\ cache' = clear_cache(cache)
                  \/ \E i \in Tasks : urls[i] = u /\ task[i].pc = "fetching"
      ]_vars

\* C29, reached: a page without content container, fetched and cached by the
\* first run although extraction failed, is served from the cache in the
\* second run and fails again.
C29_Witness ==
    /\ run = 2
    /\ \E i \in Tasks : /\ task[i].pc = "done"
                         /\ task[i].hit = "hit"
                         /\ task[i].gets = 0
                         /\ task[i].res = "ContentError"
                         /\ CachedWithoutContainer(cache, urls[i])

\* C30: a task that returned a record wrote every file its output mode asks
\* for, the Markdown file before the HTML file, and the record carries the
\* link of each file written and no other: both links in mode 'both', only
\* file_link in mode 'md', only html_link in mode 'html'.  The records a run
\* adds to the index are such records.
C30_RecordLinksFollowOutputMode ==
    LET domd  == mode \in {"both", "md"}
        dohtm == mode \in {"both", "html"}
        Good(r) == /\ (r.file_link # "") <=> domd
                   /\ (r.html_link # "") <=> dohtm
    IN  /\ \A i \in Tasks :
              (task[i].pc = "done" /\ task[i].res = "record") =>
                  /\ Good(task[i].rec[1])
                  /\ domd <=> StepAt(i, "save_markdown") > 0
                  /\ dohtm <=> StepAt(i, "save_html") > 0
                  /\ mode = "both" =>
                        StepAt(i, "save_markdown") < StepAt(i, "save_html")
                  /\ domd => <<"md", task[i].rec[1].title>> \in files
                  /\ dohtm => <<"html", task[i].rec[1].title>> \in files
        /\ \A i \in Tasks :
              (task[i].pc = "done" /\ mode = "both"
               /\ StepAt(i, "save_markdown") > 0
               /\ StepAt(i, "save_html") = 0) => task[i].res # "record"
        /\ pc = "done" =>
              \A k \in 1..Len(index.data) : Good(index.data[k])

\* C30, reached: a run in mode 'both' ended with a record in the index that
\* has both links, its task having saved Markdown, then HTML.
C30_Witness ==
    /\ pc = "done"
    /\ mode = "both"
    /\ Len(index.data) > 0
    /\ index.data[1].file_link # "" /\ index.data[1].html_link # ""
    /\ \E i \in Tasks : /\ task[i].res = "record"
                         /\ StepAt(i, "save_markdown") > 0
                         /\ StepAt(i, "save_markdown") < StepAt(i, "save_html")
                         /\ {<<"md", task[i].rec[1].title>>,
                             <<"html", task[i].rec[1].title>>} \subseteq files

==========================================================================
